---- MODULE Spec2Model ----
(***************************************************************************)
(* Model of src/pools/xaveFxPool/fxPool.ts: the FxPool facade (pair-data   *)
(* parsing, limit guard, balance updates, fail-safe quote wrappers) and    *)
(* the curve-parameter codec parseFixedCurveParam.                         *)
(*                                                                         *)
(* Numbers are arbitrary precision in the source (BigInt, ethers           *)
(* BigNumber, bignumber.js).  They are modelled exactly: a natural number  *)
(* is its sequence of decimal digits, most significant first, without      *)
(* leading zeros (zero is the empty sequence).                             *)
(***************************************************************************)
EXTENDS Integers, Sequences, FiniteSets, TLC

\* ------------------------------------------------------------------------
\* Natural numbers as digit sequences.  The recursive helpers are functions,
\* so that every argument is a value when the body is evaluated.
\* ------------------------------------------------------------------------

Zeros(k) == [i \in 1..k |-> 0]

Front(a) == SubSeq(a, 1, Len(a) - 1)

StripLeading[a \in Seq(Nat)] ==
    IF a = <<>> THEN a
    ELSE IF Head(a) = 0 THEN StripLeading[Tail(a)] ELSE a

StripTrailing[a \in Seq(Nat)] ==
    IF a = <<>> THEN a
    ELSE IF a[Len(a)] = 0 THEN StripTrailing[Front(a)] ELSE a

PadTo[a \in Seq(Nat), n \in Nat] ==
    IF n > Len(a) THEN Zeros(n - Len(a)) \o a ELSE a

NatOfInt[n \in Nat] == IF n = 0 THEN <<>> ELSE Append(NatOfInt[n \div 10], n % 10)

\* a * 10^k and floor(a / 10^k)
NatShiftL[a \in Seq(Nat), k \in Nat] == IF a = <<>> THEN a ELSE a \o Zeros(k)
NatShiftR[a \in Seq(Nat), k \in Nat] ==
    IF Len(a) <= k THEN <<>> ELSE SubSeq(a, 1, Len(a) - k)

NatPow10(k) == <<1>> \o Zeros(k)

NatLexLess[a \in Seq(Nat), b \in Seq(Nat)] ==
    IF a = <<>> THEN FALSE
    ELSE IF Head(a) # Head(b) THEN Head(a) < Head(b)
    ELSE NatLexLess[Tail(a), Tail(b)]

NatLess[a \in Seq(Nat), b \in Seq(Nat)] ==
    IF Len(a) # Len(b) THEN Len(a) < Len(b) ELSE NatLexLess[a, b]

NatLE[a \in Seq(Nat), b \in Seq(Nat)] == ~NatLess[b, a]

NatAddRec[a \in Seq(Nat), b \in Seq(Nat), c \in Nat] ==
    IF a = <<>> THEN (IF c = 0 THEN <<>> ELSE <<c>>)
    ELSE Append(NatAddRec[Front(a), Front(b), (a[Len(a)] + b[Len(a)] + c) \div 10],
                (a[Len(a)] + b[Len(a)] + c) % 10)

NatAdd[a \in Seq(Nat), b \in Seq(Nat)] ==
    StripLeading[NatAddRec[PadTo[a, Len(b)], PadTo[b, Len(a)], 0]]

\* a - b for a >= b
NatSubRec[a \in Seq(Nat), b \in Seq(Nat), c \in Nat] ==
    IF a = <<>> THEN <<>>
    ELSE IF a[Len(a)] - b[Len(a)] - c < 0
         THEN Append(NatSubRec[Front(a), Front(b), 1], a[Len(a)] - b[Len(a)] - c + 10)
         ELSE Append(NatSubRec[Front(a), Front(b), 0], a[Len(a)] - b[Len(a)] - c)

NatSub[a \in Seq(Nat), b \in Seq(Nat)] ==
    StripLeading[NatSubRec[a, PadTo[b, Len(a)], 0]]

\* a * m for a machine-sized m
NatMulSmallRec[a \in Seq(Nat), m \in Nat, c \in Nat] ==
    IF a = <<>> THEN NatOfInt[c]
    ELSE Append(NatMulSmallRec[Front(a), m, (a[Len(a)] * m + c) \div 10],
                (a[Len(a)] * m + c) % 10)

NatMulSmall[a \in Seq(Nat), m \in Nat] == StripLeading[NatMulSmallRec[a, m, 0]]

\* floor(a / m) for a machine-sized m > 0
NatDivSmallRec[a \in Seq(Nat), m \in Nat, r \in Nat] ==
    IF a = <<>> THEN <<>>
    ELSE <<(r * 10 + Head(a)) \div m>>
             \o NatDivSmallRec[Tail(a), m, (r * 10 + Head(a)) % m]

NatDivSmall[a \in Seq(Nat), m \in Nat] == StripLeading[NatDivSmallRec[a, m, 0]]

IsPow10[b \in Seq(Nat)] ==
    b # <<>> /\ Head(b) = 1 /\ \A i \in 2..Len(b) : b[i] = 0

NatMulRec[a \in Seq(Nat), b \in Seq(Nat)] ==
    IF b = <<>> \/ a = <<>> THEN <<>>
    ELSE NatAdd[NatShiftL[NatMulRec[a, Front(b)], 1], NatMulSmall[a, b[Len(b)]]]

\* a * b (a power of ten is multiplied in by appending zeros)
NatMul[a \in Seq(Nat), b \in Seq(Nat)] ==
    IF IsPow10[b] THEN NatShiftL[a, Len(b) - 1]
    ELSE IF IsPow10[a] THEN NatShiftL[b, Len(a) - 1]
    ELSE NatMulRec[a, b]

\* the largest q in 0..9 with q * b <= cur
QuotDigit[cur \in Seq(Nat), b \in Seq(Nat), q \in Nat] ==
    IF q = 9 THEN 9
    ELSE IF NatLess[cur, NatMulSmall[b, q + 1]] THEN q
    ELSE QuotDigit[cur, b, q + 1]

\* long division: cur is the running remainder with the next digit of the
\* dividend appended, a the digits still to bring down
NatDivStep[a \in Seq(Nat), b \in Seq(Nat), cur \in Seq(Nat)] ==
    LET q == QuotDigit[cur, b, 0]
    IN  IF a = <<>> THEN <<q>>
        ELSE <<q>> \o NatDivStep[Tail(a), b,
                          StripLeading[Append(NatSub[cur, NatMulSmall[b, q]], Head(a))]]

\* floor(a / b) for b > 0 (a power of ten is divided out by dropping digits)
NatDiv[a \in Seq(Nat), b \in Seq(Nat)] ==
    IF IsPow10[b] THEN NatShiftR[a, Len(b) - 1]
    ELSE StripLeading[NatDivStep[a, b, <<>>]]

\* BigInt a << n and a >> n, for a >= 0
NatShl[a \in Seq(Nat), n \in Nat] ==
    IF n = 0 THEN a
    ELSE IF n >= 16 THEN NatShl[NatMulSmall[a, 65536], n - 16]
    ELSE NatShl[NatMulSmall[a, 2], n - 1]

NatShr[a \in Seq(Nat), n \in Nat] ==
    IF n = 0 THEN a
    ELSE IF n >= 16 THEN NatShr[NatDivSmall[a, 65536], n - 16]
    ELSE NatShr[NatDivSmall[a, 2], n - 1]

\* ------------------------------------------------------------------------
\* bignumber.js decimals (OldBigNumber): (-1)^neg * mant * 10^(-dp), kept
\* normalised (no trailing fractional zero, zero is non-negative)
\* ------------------------------------------------------------------------

Dec == [neg : BOOLEAN, mant : Seq(Nat), dp : Nat]

DecNorm[d \in Dec] ==
    IF d.mant = <<>> THEN [neg |-> FALSE, mant |-> <<>>, dp |-> 0]
    ELSE IF d.dp > 0 /\ d.mant[Len(d.mant)] = 0
         THEN DecNorm[[neg |-> d.neg, mant |-> Front(d.mant), dp |-> d.dp - 1]]
         ELSE d

\* bnum(n) for a non-negative integer given by its digits
bnum(digits) == [neg |-> FALSE, mant |-> StripLeading[digits], dp |-> 0]

ZERO == bnum(<<>>)
ONE  == bnum(<<1>>)

\* the mantissa of d at dp = k, for k >= d.dp
DecScaled[d \in Dec, k \in Nat] == NatShiftL[d.mant, k - d.dp]

DecSigned[xneg \in BOOLEAN, a \in Seq(Nat), yneg \in BOOLEAN, b \in Seq(Nat), k \in Nat] ==
    IF xneg = yneg THEN DecNorm[[neg |-> xneg, mant |-> NatAdd[a, b], dp |-> k]]
    ELSE IF NatLess[a, b] THEN DecNorm[[neg |-> yneg, mant |-> NatSub[b, a], dp |-> k]]
    ELSE DecNorm[[neg |-> xneg, mant |-> NatSub[a, b], dp |-> k]]

DecMaxDp[x \in Dec, y \in Dec] == IF x.dp > y.dp THEN x.dp ELSE y.dp

\* x.plus(y), x.minus(y), x.times(y): exact
DecPlus[x \in Dec, y \in Dec] ==
    DecSigned[x.neg, DecScaled[x, DecMaxDp[x, y]], y.neg, DecScaled[y, DecMaxDp[x, y]],
              DecMaxDp[x, y]]

DecNeg[x \in Dec] == DecNorm[[neg |-> ~x.neg, mant |-> x.mant, dp |-> x.dp]]

DecMinus[x \in Dec, y \in Dec] == DecPlus[x, DecNeg[y]]

DecTimes[x \in Dec, y \in Dec] ==
    DecNorm[[neg |-> x.neg # y.neg, mant |-> NatMul[x.mant, y.mant], dp |-> x.dp + y.dp]]

DecLess[x \in Dec, y \in Dec] == DecMinus[x, y].neg

\* x.pow(n) for an integer n >= 0
DecPow[x \in Dec, n \in Nat] == IF n = 0 THEN ONE ELSE DecTimes[DecPow[x, n - 1], x]

\* BigNumber.config({ DECIMAL_PLACES, ROUNDING_MODE: ROUND_DOWN }) of the
\* repository's big-number module: div keeps DECIMAL_PLACES digits, truncating
DECIMAL_PLACES == 18

\* x.div(y) for y # 0
DecDiv[x \in Dec, y \in Dec] ==
    DecNorm[[neg  |-> x.neg # y.neg,
             mant |-> IF DECIMAL_PLACES + y.dp >= x.dp
                      THEN NatDiv[NatShiftL[x.mant, DECIMAL_PLACES + y.dp - x.dp], y.mant]
                      ELSE NatDiv[x.mant, NatShiftL[y.mant, x.dp - DECIMAL_PLACES - y.dp]],
             dp   |-> DECIMAL_PLACES]]

\* x.decimalPlaces(k, ROUND_UP): away from zero
DecimalPlacesUp[x \in Dec, k \in Nat] ==
    IF x.dp <= k THEN x
    ELSE IF NatShiftL[NatShiftR[x.mant, x.dp - k], x.dp - k] = x.mant
         THEN DecNorm[[neg |-> x.neg, mant |-> NatShiftR[x.mant, x.dp - k], dp |-> k]]
         ELSE DecNorm[[neg |-> x.neg,
                       mant |-> NatAdd[NatShiftR[x.mant, x.dp - k], <<1>>], dp |-> k]]

\* x.toString() of a decimal: the digits before and after the point
DecWhole[x \in Dec] ==
    IF Len(x.mant) <= x.dp THEN <<0>> ELSE SubSeq(x.mant, 1, Len(x.mant) - x.dp)

DecFrac[x \in Dec] ==
    IF Len(x.mant) >= x.dp THEN SubSeq(x.mant, Len(x.mant) - x.dp + 1, Len(x.mant))
    ELSE Zeros(x.dp - Len(x.mant)) \o x.mant

DecToString[x \in Dec] == [neg |-> x.neg, whole |-> DecWhole[x], frac |-> DecFrac[x]]

\* ------------------------------------------------------------------------
\* ethers: decimal strings, BigNumber, parseFixed, formatFixed, getAddress
\* ------------------------------------------------------------------------

\* a decimal string "-whole.frac" (frac = <<>>: no point)
DecStr == [neg : BOOLEAN, whole : Seq(Nat), frac : Seq(Nat)]

Str(whole, frac) == [neg |-> FALSE, whole |-> whole, frac |-> frac]

\* an ethers BigNumber: a signed integer
BigNumber == [neg : BOOLEAN, mag : Seq(Nat)]

BN(digits) == [neg |-> FALSE, mag |-> StripLeading[digits]]

Zero == BN(<<>>)

\* parseFixed(value, decimals): throws when the fraction, its trailing zeros
\* trimmed, has more than `decimals` digits
parseFixed[value \in DecStr, decimals \in Nat] ==
    IF Len(StripTrailing[value.frac]) > decimals
    THEN [ok |-> FALSE, val |-> Zero]
    ELSE [ok  |-> TRUE,
          val |-> [neg |-> value.neg
                             /\ StripLeading[value.whole \o StripTrailing[value.frac]] # <<>>,
                   mag |-> StripLeading[value.whole \o StripTrailing[value.frac]
                              \o Zeros(decimals - Len(StripTrailing[value.frac]))]]]

\* the last `decimals` digits of the magnitude, trailing zeros stripped down
\* to one digit at least
FixedFraction[mag \in Seq(Nat), decimals \in Nat] ==
    IF StripTrailing[SubSeq(PadTo[mag, decimals], Len(PadTo[mag, decimals]) - decimals + 1,
                            Len(PadTo[mag, decimals]))] = <<>>
    THEN <<0>>
    ELSE StripTrailing[SubSeq(PadTo[mag, decimals], Len(PadTo[mag, decimals]) - decimals + 1,
                              Len(PadTo[mag, decimals]))]

\* formatFixed(value, decimals)
formatFixed[value \in BigNumber, decimals \in Nat] ==
    [neg   |-> value.neg,
     whole |-> IF Len(value.mag) <= decimals THEN <<0>>
               ELSE SubSeq(value.mag, 1, Len(value.mag) - decimals),
     frac  |-> IF decimals = 0 THEN <<>> ELSE FixedFraction[value.mag, decimals]]

\* An address is an account (id) written in some form: all lower case, with
\* the checksum capitalisation, or with a wrong capitalisation.
Address == [id : Nat, form : {"lower", "checksum", "bad"}]

\* getAddress(a): the checksummed form; throws on a wrong capitalisation
getAddress[a \in Address] ==
    [ok |-> a.form # "bad", val |-> [id |-> a.id, form |-> "checksum"]]

\* isSameAddress(a, b) of ../../utils
isSameAddress[a \in Address, b \in Address] ==
    [ok   |-> getAddress[a].ok /\ getAddress[b].ok,
     same |-> getAddress[a].val = getAddress[b].val]

\* ------------------------------------------------------------------------
\* parseFixedCurveParam
\* ------------------------------------------------------------------------

\* ((((BigInt(P) + 1n) << 64n) / 10n ** 18n) * 10n ** 36n) >> 64n
Param64[P \in Seq(Nat)] ==
    NatShr[NatMul[NatDiv[NatShl[NatAdd[P, <<1>>], 64], NatPow10(18)], NatPow10(36)], 64]

\* the same conversion without the + 1n before the shift
Param64NoBias[P \in Seq(Nat)] ==
    NatShr[NatMul[NatDiv[NatShl[P, 64], NatPow10(18)], NatPow10(36)], 64]

\* parseFixedCurveParam without the + 1n
parseFixedCurveParamNoBias(param) ==
    DecimalPlacesUp[DecDiv[bnum(Param64NoBias[parseFixed[param, 18].val.mag]),
                           DecPow[bnum(<<1, 0>>), 18]], 3]

\* parseFixedCurveParam with decimalPlaces(3) left at the configured
\* rounding mode (ROUND_DOWN)
parseFixedCurveParamTruncated(param) ==
    [neg  |-> FALSE,
     mant |-> NatShiftR[Param64[parseFixed[param, 18].val.mag], 15],
     dp   |-> 3]

parseFixedCurveParam(param) ==
    DecimalPlacesUp[DecDiv[bnum(Param64[parseFixed[param, 18].val.mag]),
                           DecPow[bnum(<<1, 0>>), 18]], 3]

\* ------------------------------------------------------------------------
\* FxPool
\* ------------------------------------------------------------------------

\* new FxPool(id, address, swapFee, totalShares, tokens, tokensList,
\*            alpha, beta, lambda, delta, epsilon)
FxPoolNew(snap) ==
    [id          |-> snap.id,
     address     |-> snap.address,
     swapFee     |-> parseFixed[snap.swapFee, 18].val,
     totalShares |-> parseFixed[snap.totalShares, 18].val,
     tokens      |-> snap.tokens,
     tokensList  |-> snap.tokensList,
     alpha       |-> parseFixedCurveParam(snap.alpha),
     beta        |-> parseFixedCurveParam(snap.beta),
     lambda      |-> parseFixedCurveParam(snap.lambda),
     delta       |-> parseFixedCurveParam(snap.delta),
     epsilon     |-> parseFixedCurveParam(snap.epsilon)]

\* a token list, as far as the searches read it
FxPoolTokens == Seq([address : Address])

\* tokens.findIndex((t) => getAddress(t.address) === getAddress(a)), from
\* position i on: 0 when no token matches; throws when an address compared
\* on the way is malformed
FindIndexFrom[tokens \in FxPoolTokens, a \in Address, i \in Nat] ==
    IF i > Len(tokens) THEN [ok |-> TRUE, idx |-> 0]
    ELSE IF ~(getAddress[tokens[i].address].ok /\ getAddress[a].ok)
         THEN [ok |-> FALSE, idx |-> 0]
    ELSE IF getAddress[tokens[i].address].val = getAddress[a].val
         THEN [ok |-> TRUE, idx |-> i]
    ELSE FindIndexFrom[tokens, a, i + 1]

FindIndex(tokens, a) ==
    FindIndexFrom[[i \in 1..Len(tokens) |-> [address |-> tokens[i].address]], a, 1]

\* tokens.find((t) => isSameAddress(t.address, a))
FindSameFrom[tokens \in FxPoolTokens, a \in Address, i \in Nat] ==
    IF i > Len(tokens) THEN [ok |-> TRUE, idx |-> 0]
    ELSE IF ~isSameAddress[tokens[i].address, a].ok THEN [ok |-> FALSE, idx |-> 0]
    ELSE IF isSameAddress[tokens[i].address, a].same THEN [ok |-> TRUE, idx |-> i]
    ELSE FindSameFrom[tokens, a, i + 1]

FindSame(tokens, a) ==
    FindSameFrom[[i \in 1..Len(tokens) |-> [address |-> tokens[i].address]], a, 1]

\* !t.token?.latestFXPrice and !t.token?.fxOracleDecimals: an absent token
\* record, an absent field and a zero decimal count are all falsy
NoLatestFXPrice(t) == ~(t.hasToken /\ t.hasLatestFXPrice)
NoFxOracleDecimals(t) == ~(t.hasToken /\ t.hasFxOracleDecimals /\ t.fxOracleDecimals # 0)

\* the value of a parsePoolPairData call that threw
NoPairData ==
    [id |-> "", address |-> [id |-> 0, form |-> "lower"], poolType |-> "",
     tokenIn |-> [id |-> 0, form |-> "lower"], tokenOut |-> [id |-> 0, form |-> "lower"],
     decimalsIn |-> 0, decimalsOut |-> 0, balanceIn |-> Zero, balanceOut |-> Zero,
     swapFee |-> Zero, alpha |-> ZERO, beta |-> ZERO, lambda |-> ZERO, delta |-> ZERO,
     epsilon |-> ZERO,
     hasAlpha |-> FALSE, hasOracleIn |-> FALSE, hasOracleOut |-> FALSE,
     tokenInLatestFXPrice |-> ZERO, tokenOutLatestFXPrice |-> ZERO,
     tokenInfxOracleDecimals |-> ZERO, tokenOutfxOracleDecimals |-> ZERO]

Threw(msg) == [raised |-> TRUE, err |-> msg, pd |-> NoPairData]

\* the FxPoolPairData object literal built from tokens tI and tO
PoolPairDataOf(pool, tokenIn, tokenOut, tI, tO) ==
    IF ~(parseFixed[tI.balance, tI.decimals].ok /\ parseFixed[tO.balance, tO.decimals].ok
         /\ parseFixed[tI.latestFXPrice, tI.fxOracleDecimals].ok
         /\ parseFixed[tO.latestFXPrice, tO.fxOracleDecimals].ok)
    THEN Threw("parseFixed")
    ELSE [raised |-> FALSE, err |-> "",
          pd |-> [id          |-> pool.id,
                  address     |-> pool.address,
                  poolType    |-> "Fx",
                  tokenIn     |-> tokenIn,
                  tokenOut    |-> tokenOut,
                  decimalsIn  |-> tI.decimals,
                  decimalsOut |-> tO.decimals,
                  balanceIn   |-> parseFixed[tI.balance, tI.decimals].val,
                  balanceOut  |-> parseFixed[tO.balance, tO.decimals].val,
                  swapFee     |-> pool.swapFee,
                  alpha       |-> pool.alpha,
                  beta        |-> pool.beta,
                  lambda      |-> pool.lambda,
                  delta       |-> pool.delta,
                  epsilon     |-> pool.epsilon,
                  hasAlpha     |-> TRUE,
                  hasOracleIn  |-> TRUE,
                  hasOracleOut |-> TRUE,
                  tokenInLatestFXPrice |->
                      bnum(parseFixed[tI.latestFXPrice, tI.fxOracleDecimals].val.mag),
                  tokenOutLatestFXPrice |->
                      bnum(parseFixed[tO.latestFXPrice, tO.fxOracleDecimals].val.mag),
                  tokenInfxOracleDecimals  |-> bnum(NatOfInt[tI.fxOracleDecimals]),
                  tokenOutfxOracleDecimals |-> bnum(NatOfInt[tO.fxOracleDecimals])]]

\* parsePoolPairData without the check of fxOracleDecimals
ParseFoundNoDecimalsCheck(pool, tokenIn, tokenOut, i, o) ==
    IF NoLatestFXPrice(pool.tokens[o]) \/ NoLatestFXPrice(pool.tokens[i])
    THEN Threw("FX Pool Missing LatestFxPrice")
    ELSE PoolPairDataOf(pool, tokenIn, tokenOut, pool.tokens[i], pool.tokens[o])

\* parsePoolPairData once both tokens are found, at positions i and o
ParseFound(pool, tokenIn, tokenOut, i, o) ==
    IF NoLatestFXPrice(pool.tokens[o]) \/ NoLatestFXPrice(pool.tokens[i])
    THEN Threw("FX Pool Missing LatestFxPrice")
    ELSE IF NoFxOracleDecimals(pool.tokens[o]) \/ NoFxOracleDecimals(pool.tokens[i])
    THEN Threw("FX Pool Missing tokenIn or tokenOut fxOracleDecimals")
    ELSE PoolPairDataOf(pool, tokenIn, tokenOut, pool.tokens[i], pool.tokens[o])

parsePoolPairData(pool, tokenIn, tokenOut) ==
    IF ~FindIndex(pool.tokens, tokenIn).ok THEN Threw("invalid address")
    ELSE IF FindIndex(pool.tokens, tokenIn).idx = 0 THEN Threw("Pool does not contain tokenIn")
    ELSE IF ~FindIndex(pool.tokens, tokenOut).ok THEN Threw("invalid address")
    ELSE IF FindIndex(pool.tokens, tokenOut).idx = 0
    THEN Threw("Pool does not contain tokenOut")
    ELSE ParseFound(pool, tokenIn, tokenOut, FindIndex(pool.tokens, tokenIn).idx,
                    FindIndex(pool.tokens, tokenOut).idx)

\* the balance written, and the total shares with it
SetBalanceAndShares(pool, i, newBalance) ==
    [pool EXCEPT !.tokens[i].balance = formatFixed[newBalance, pool.tokens[i].decimals],
                 !.totalShares = newBalance]

\* the balance formatted with the decimals of the pool's first token
SetBalanceFirstScale(pool, i, newBalance) ==
    [pool EXCEPT !.tokens[i].balance = formatFixed[newBalance, pool.tokens[1].decimals]]

\* T.balance = formatFixed(newBalance, T.decimals) for the token at position i
SetBalance(pool, i, newBalance) ==
    [pool EXCEPT !.tokens[i].balance = formatFixed[newBalance, pool.tokens[i].decimals]]

\* updateTokenBalanceForPool returning silently when no token matches
updateTokenBalanceForPoolNoThrow(pool, token, newBalance) ==
    IF pool.address = token
    THEN [raised |-> FALSE, pool |-> [pool EXCEPT !.totalShares = newBalance]]
    ELSE IF ~FindSame(pool.tokens, token).ok THEN [raised |-> TRUE, pool |-> pool]
    ELSE IF FindSame(pool.tokens, token).idx = 0 THEN [raised |-> FALSE, pool |-> pool]
    ELSE [raised |-> FALSE,
          pool   |-> [pool EXCEPT !.tokens[FindSame(pool.tokens, token).idx].balance =
                         formatFixed[newBalance,
                                     pool.tokens[FindSame(pool.tokens, token).idx].decimals]]]

\* updateTokenBalanceForPool(token, newBalance): the pool afterwards, and
\* whether the call threw
updateTokenBalanceForPool(pool, token, newBalance) ==
    IF pool.address = token
    THEN [raised |-> FALSE, pool |-> [pool EXCEPT !.totalShares = newBalance]]
    ELSE IF ~FindSame(pool.tokens, token).ok THEN [raised |-> TRUE, pool |-> pool]
    ELSE IF FindSame(pool.tokens, token).idx = 0 THEN [raised |-> TRUE, pool |-> pool]
    ELSE [raised |-> FALSE,
          pool   |-> SetBalance(pool, FindSame(pool.tokens, token).idx, newBalance)]

\* ------------------------------------------------------------------------
\* ./fxPoolMath and ../liquidity: the numeraire conversions, and the curve
\* functions as far as the facade sees them
\* ------------------------------------------------------------------------

NatToInt[a \in Seq(Nat)] == IF a = <<>> THEN 0 ELSE NatToInt[Front(a)] * 10 + a[Len(a)]

TEN == bnum(<<1, 0>>)
HALF == [neg |-> FALSE, mant |-> <<5>>, dp |-> 1]

\* a BigNumber read as a decimal
DecOfBN(b) == [neg |-> b.neg, mant |-> b.mag, dp |-> 0]

\* toNumeraire: rawAmount * oraclePrice / 10^oracleDecimals / 10^decimals
viewNumeraireAmount[amount \in Dec, decimals \in Nat, rate \in Dec, fxOracleDecimals \in Dec] ==
    DecDiv[DecDiv[DecTimes[amount, rate], DecPow[TEN, NatToInt[fxOracleDecimals.mant]]],
           DecPow[TEN, decimals]]

\* fromNumeraire: amount * 10^decimals * 10^oracleDecimals / oraclePrice;
\* fails on a zero price
viewRawAmount[amount \in Dec, decimals \in Dec, rate \in Dec, fxOracleDecimals \in Dec] ==
    IF rate = ZERO THEN [ok |-> FALSE, val |-> ZERO]
    ELSE [ok  |-> TRUE,
          val |-> DecDiv[DecTimes[DecTimes[amount, DecPow[TEN, NatToInt[decimals.mant]]],
                                  DecPow[TEN, NatToInt[fxOracleDecimals.mant]]], rate]]

Reserves == [ok : BOOLEAN, tokenInReservesInNumeraire : Dec,
             tokenOutReservesInNumeraire : Dec, _oGLiq : Dec]

ReservesOf[tokenInNumeraire \in Dec, tokenOutNumeraire \in Dec] ==
    [ok |-> TRUE,
     tokenInReservesInNumeraire  |-> tokenInNumeraire,
     tokenOutReservesInNumeraire |-> tokenOutNumeraire,
     _oGLiq |-> DecPlus[tokenInNumeraire, tokenOutNumeraire]]

\* the reserves of both sides in numeraire and their sum; fails unless both
\* sides carry their oracle price and decimal count
poolBalancesToNumeraire(poolPairData) ==
    IF ~(poolPairData.hasOracleIn /\ poolPairData.hasOracleOut)
    THEN [ok |-> FALSE, tokenInReservesInNumeraire |-> ZERO,
          tokenOutReservesInNumeraire |-> ZERO, _oGLiq |-> ZERO]
    ELSE ReservesOf[viewNumeraireAmount[DecOfBN(poolPairData.balanceIn),
                                        poolPairData.decimalsIn,
                                        poolPairData.tokenInLatestFXPrice,
                                        poolPairData.tokenInfxOracleDecimals],
                    viewNumeraireAmount[DecOfBN(poolPairData.balanceOut),
                                        poolPairData.decimalsOut,
                                        poolPairData.tokenOutLatestFXPrice,
                                        poolPairData.tokenOutfxOracleDecimals]]

\* What a curve function of ./fxPoolMath does on one call: it throws, or it
\* returns a decimal.
MathValues ==
    {ZERO, [neg |-> FALSE, mant |-> <<9, 2, 5>>, dp |-> 0],
     [neg |-> TRUE, mant |-> <<2, 5>>, dp |-> 1]}

MathOutcomes ==
    {[failed |-> TRUE, val |-> ZERO]} \cup {[failed |-> FALSE, val |-> v] : v \in MathValues}

\* inversely proportional to the derivative at zero
universalNormalizedLiquidity[d \in Dec] ==
    IF d = ZERO THEN [finite |-> FALSE, val |-> ZERO]
    ELSE [finite |-> TRUE, val |-> DecDiv[ONE, d]]

\* ------------------------------------------------------------------------
\* FxPool: limit guard and fail-safe quote methods
\* ------------------------------------------------------------------------

SwapExactIn == "SwapExactIn"
SwapExactOut == "SwapExactOut"

Outcome == [failed : BOOLEAN, val : Dec]

\* what viewRawAmount gives: a decimal, or a failure
RawAmount == [ok : BOOLEAN, val : Dec]

\* viewRawAmount(...).div(bnum(10).pow(decimals))
LimitOf[raw \in RawAmount, decimals \in Nat] ==
    IF ~raw.ok THEN [failed |-> TRUE, val |-> ZERO]
    ELSE [failed |-> FALSE, val |-> DecDiv[raw.val, DecPow[TEN, decimals]]]

\* alphaValue.plus(1).times(parsedReserves._oGLiq).times(0.5), with
\* alphaValue = poolPairData.alpha.div(bnum(10).pow(18))
MaxLimitOf[alpha \in Dec, oGLiq \in Dec] ==
    DecTimes[DecTimes[DecPlus[DecDiv[alpha, DecPow[TEN, 18]], ONE], oGLiq], HALF]

\* the try block with tokenIn's side taken for every swap type
LimitTryInSide(poolPairData, swapType, parsedReserves) ==
    IF ~parsedReserves.ok \/ ~poolPairData.hasAlpha THEN [failed |-> TRUE, val |-> ZERO]
    ELSE LimitOf[viewRawAmount[
                     DecMinus[MaxLimitOf[poolPairData.alpha, parsedReserves._oGLiq],
                              parsedReserves.tokenInReservesInNumeraire],
                     bnum(NatOfInt[poolPairData.decimalsIn]),
                     poolPairData.tokenInLatestFXPrice,
                     poolPairData.tokenInfxOracleDecimals],
                 poolPairData.decimalsIn]

\* the try block of getLimitAmountSwap, given the parsed reserves; reading
\* .div of an absent alpha throws
LimitTry(poolPairData, swapType, parsedReserves) ==
    IF ~parsedReserves.ok \/ ~poolPairData.hasAlpha THEN [failed |-> TRUE, val |-> ZERO]
    ELSE IF swapType = SwapExactIn
    THEN LimitOf[viewRawAmount[
                     DecMinus[MaxLimitOf[poolPairData.alpha, parsedReserves._oGLiq],
                              parsedReserves.tokenInReservesInNumeraire],
                     bnum(NatOfInt[poolPairData.decimalsIn]),
                     poolPairData.tokenInLatestFXPrice,
                     poolPairData.tokenInfxOracleDecimals],
                 poolPairData.decimalsIn]
    ELSE LimitOf[viewRawAmount[
                     DecMinus[MaxLimitOf[poolPairData.alpha, parsedReserves._oGLiq],
                              parsedReserves.tokenOutReservesInNumeraire],
                     bnum(NatOfInt[poolPairData.decimalsOut]),
                     poolPairData.tokenOutLatestFXPrice,
                     poolPairData.tokenOutfxOracleDecimals],
                 poolPairData.decimalsOut]

\* try { return <outcome> } catch { return ZERO }
CatchZero[outcome \in Outcome] ==
    [raised |-> FALSE, failed |-> outcome.failed,
     ret |-> IF outcome.failed THEN ZERO ELSE outcome.val]

\* return <outcome> without the try: a failure propagates
NoCatch[outcome \in Outcome] ==
    [raised |-> outcome.failed, failed |-> outcome.failed, ret |-> outcome.val]

getLimitAmountSwapNoCatch(poolPairData, swapType) ==
    NoCatch[LimitTry(poolPairData, swapType, poolBalancesToNumeraire(poolPairData))]

getLimitAmountSwap(poolPairData, swapType) ==
    CatchZero[LimitTry(poolPairData, swapType, poolBalancesToNumeraire(poolPairData))]

\* The six quote and price methods; `outcome` is what the function of
\* ./fxPoolMath they call does on (amount, poolPairData).
_exactTokenInForTokenOut(poolPairData, amount, outcome) == CatchZero[outcome]

_tokenInForExactTokenOut(poolPairData, amount, outcome) == CatchZero[outcome]

_spotPriceAfterSwapExactTokenInForTokenOut(poolPairData, amount, outcome) ==
    CatchZero[outcome]

_spotPriceAfterSwapTokenInForExactTokenOutNoCatch(poolPairData, amount, outcome) ==
    NoCatch[outcome]

_spotPriceAfterSwapTokenInForExactTokenOut(poolPairData, amount, outcome) ==
    CatchZero[outcome]

_derivativeSpotPriceAfterSwapExactTokenInForTokenOut(poolPairData, amount, outcome) ==
    CatchZero[outcome]

_derivativeSpotPriceAfterSwapTokenInForExactTokenOut(poolPairData, amount, outcome) ==
    CatchZero[outcome]

\* getNormalizedLiquidity(poolPairData)
getNormalizedLiquidity(poolPairData, outcome) ==
    universalNormalizedLiquidity[
        _derivativeSpotPriceAfterSwapExactTokenInForTokenOut(poolPairData, ZERO, outcome).ret]

\* ------------------------------------------------------------------------
\* The pools and inputs explored
\* ------------------------------------------------------------------------

\* how many of the new balances below updateTokenBalanceForPool is tried with
NumNewBalances == 2

\* how many of the balances below a PairData given to getLimitAmountSwap has
NumLimitBalances == 3

\* how many digits 0..NumParamDigits-1 the first fractional digits of a
\* curve parameter range over
NumParamDigits == 4

Lower(n) == [id |-> n, form |-> "lower"]
Checksum(n) == [id |-> n, form |-> "checksum"]

PoolAddress == Lower(0)

\* a token of the subgraph: `kind` says which oracle fields it carries
Token(n, balance, decimals, kind) ==
    [address  |-> Lower(n),
     balance  |-> balance,
     decimals |-> decimals,
     hasToken |-> kind # "no token",
     hasLatestFXPrice |-> kind \notin {"no token", "no price"},
     latestFXPrice    |-> Str(<<1>>, <<0, 8>>),
     hasFxOracleDecimals |-> kind \notin {"no token", "no decimals"},
     fxOracleDecimals    |-> IF kind = "zero decimals" THEN 0 ELSE 8]

TokenA == [Token(1, Str(<<1, 0, 0, 0, 0, 0, 0>>, <<>>), 6, "full")
              EXCEPT !.latestFXPrice = Str(<<1>>, <<0>>)]
TokenB == Token(2, Str(<<9, 0, 0, 0, 0, 0>>, <<2, 5>>), 2, "full")

TokenLists ==
    {<<TokenA, TokenB>>,
     <<TokenA, Token(3, Str(<<5>>, <<5>>), 6, "no price")>>,
     <<Token(4, Str(<<7>>, <<>>), 6, "no decimals"), TokenB>>,
     <<TokenA, Token(5, Str(<<7>>, <<0>>), 2, "no token")>>,
     <<Token(6, Str(<<0>>, <<0, 1>>), 2, "zero decimals"), TokenB>>}

Snapshot(tokens) ==
    [id          |-> "pool-id",
     address     |-> PoolAddress,
     swapFee     |-> Str(<<0>>, <<0, 0, 0, 5>>),
     totalShares |-> Str(<<1, 8, 0, 0, 0, 0, 0>>, <<5>>),
     tokens      |-> tokens,
     tokensList  |-> [i \in 1..Len(tokens) |-> tokens[i].address],
     alpha       |-> Str(<<0>>, <<8>>),
     beta        |-> Str(<<0>>, <<4, 8>>),
     lambda      |-> Str(<<0>>, <<3>>),
     delta       |-> Str(<<0>>, <<4>>),
     epsilon     |-> Str(<<0>>, <<0, 0, 1, 5>>)]

\* the pools as constructed, one for each token list
InitialPools == {FxPoolNew(Snapshot(tokens)) : tokens \in TokenLists}

\* new balances, as integers in the token's smallest unit
NewBalanceList ==
    << BN(<<1, 2, 3, 4, 5, 6, 7, 8, 9>>), BN(<<1, 0, 0, 0, 0, 0, 0, 0, 0, 0, 0>>),
       [neg |-> TRUE, mag |-> <<5, 0>>], Zero >>

NewBalances == {NewBalanceList[i] : i \in 1..NumNewBalances}

\* an address that is neither the pool's nor a token's
Stranger == Lower(9)

\* the addresses tried: the pool's and each token's in both valid forms, a
\* stranger's, and a malformed one
AddressInputs(p) ==
    {PoolAddress, Checksum(0), Stranger, [id |-> p.tokens[1].address.id, form |-> "bad"]}
        \cup {Lower(p.tokens[i].address.id) : i \in 1..Len(p.tokens)}
        \cup {Checksum(p.tokens[i].address.id) : i \in 1..Len(p.tokens)}

SwapTypes == {SwapExactIn, SwapExactOut, "Other"}

BasePool == FxPoolNew(Snapshot(<<TokenA, TokenB>>))

\* a pool that stands for "no pool constructed"
NoPool ==
    [id |-> "", address |-> PoolAddress, swapFee |-> Zero, totalShares |-> Zero,
     tokens |-> <<>>, tokensList |-> <<>>, alpha |-> ZERO, beta |-> ZERO,
     lambda |-> ZERO, delta |-> ZERO, epsilon |-> ZERO]

\* balances a PairData given to getLimitAmountSwap may hold
LimitBalanceList ==
    << BN(<<1, 0, 0, 0, 0, 0, 0, 0, 0>>), BN(<<1, 0, 0, 0, 0, 0, 0, 0, 0, 0, 0, 0, 0>>),
       BN(<<1, 2, 3, 4, 5, 6, 7, 8, 9>>), Zero >>

LimitBalances == {LimitBalanceList[i] : i \in 1..NumLimitBalances}

LimitAlphas == {BasePool.alpha, parseFixedCurveParam(Str(<<0>>, <<>>))}

LimitPairs ==
    {parsePoolPairData(BasePool, TokenA.address, TokenB.address).pd,
     parsePoolPairData(BasePool, TokenB.address, TokenA.address).pd}

\* the PairData getLimitAmountSwap is tried on: well-formed ones, and ones
\* without the oracle fields of a side, without alpha, with a zero price
LimitInputs ==
    {[pd EXCEPT !.balanceIn = bi, !.balanceOut = bo, !.alpha = a] :
        pd \in LimitPairs, bi \in LimitBalances, bo \in LimitBalances, a \in LimitAlphas}
    \cup {[pd EXCEPT !.hasOracleOut = FALSE] : pd \in LimitPairs}
    \cup {[pd EXCEPT !.hasAlpha = FALSE] : pd \in LimitPairs}
    \cup {[pd EXCEPT !.tokenInLatestFXPrice = ZERO] : pd \in LimitPairs}
    \cup {[pd EXCEPT !.tokenOutLatestFXPrice = ZERO] : pd \in LimitPairs}

ParamDigits == 0..(NumParamDigits - 1)

\* the curve parameters of the snapshot, and w.abc for small digits
ParamInputs ==
    {Str(<<0>>, <<8>>), Str(<<0>>, <<4, 8>>), Str(<<0>>, <<3>>), Str(<<0>>, <<4>>),
     Str(<<0>>, <<0, 0, 1, 5>>)}
    \cup {Str(<<w>>, <<a, b, c>>) : w \in 0..1, a \in ParamDigits, b \in ParamDigits,
                                    c \in ParamDigits}

\* ------------------------------------------------------------------------
\* State
\* ------------------------------------------------------------------------

VARIABLES
    pool,     \* the FxPool object
    pool0,    \* the pool as constructed
    written,  \* per token: the newBalance of its latest successful update
    pc,       \* "idle", or "returned" while the caller holds a result
    last,     \* the call that returned and its result
    lim,      \* getLimitAmountSwap applied to a given PairData
    codec     \* parseFixedCurveParam applied to a given parameter

vars == <<pool, pool0, written, pc, last, lim, codec>>

NoCall ==
    [op |-> "", raised |-> FALSE, err |-> "", tokenIn |-> PoolAddress,
     tokenOut |-> PoolAddress, pd |-> NoPairData, token |-> PoolAddress,
     newBalance |-> Zero, failed |-> FALSE, val |-> ZERO, ret |-> ZERO, finite |-> TRUE]

LimIdle ==
    [pc |-> "off", pd |-> NoPairData, swapType |-> "", raised |-> FALSE,
     failed |-> FALSE, ret |-> ZERO]

CodecIdle == [pc |-> "off", param |-> Str(<<0>>, <<>>), out |-> ZERO, out2 |-> ZERO]

Init ==
    /\ pool \in InitialPools
    /\ pool0 = pool
    /\ written = [i \in 1..Len(pool.tokens) |-> [set |-> FALSE, val |-> Zero]]
    /\ pc = "idle"
    /\ last = NoCall
    /\ lim = LimIdle
    /\ codec = CodecIdle

\* the PairData a caller holds: parsed from the pool's first two tokens
\* (NoPairData when that parse throws)
HeldPairData == parsePoolPairData(pool, pool.tokens[1].address, pool.tokens[2].address).pd

Amounts == {ZERO, ONE}

Returned(l) ==
    /\ pc' = "returned"
    /\ last' = l
    /\ UNCHANGED <<pool, pool0, written, lim, codec>>

ParsePoolPairData ==
    /\ pc = "idle"
    /\ \E tokenIn \in AddressInputs(pool), tokenOut \in AddressInputs(pool) :
         \E r \in {parsePoolPairData(pool, tokenIn, tokenOut)} :
            Returned([NoCall EXCEPT !.op = "parsePoolPairData", !.raised = r.raised,
                                    !.err = r.err, !.tokenIn = tokenIn,
                                    !.tokenOut = tokenOut, !.pd = r.pd])

GetNormalizedLiquidity ==
    /\ pc = "idle"
    /\ \E o \in MathOutcomes :
         \E r \in {getNormalizedLiquidity(HeldPairData, o)} :
            Returned([NoCall EXCEPT !.op = "getNormalizedLiquidity", !.failed = o.failed,
                                    !.val = o.val, !.ret = r.val, !.finite = r.finite])

GetLimitAmountSwap ==
    /\ pc = "idle"
    /\ \E swapType \in SwapTypes :
         \E pd \in {HeldPairData} :
            \E r \in {getLimitAmountSwap(pd, swapType)} :
               Returned([NoCall EXCEPT !.op = "getLimitAmountSwap", !.raised = r.raised,
                                       !.failed = r.failed, !.ret = r.ret, !.pd = pd])

\* the positions of the token with the account of address a
TokenAt(p, a) == {i \in 1..Len(p.tokens) : p.tokens[i].address.id = a.id}

UpdateTokenBalanceForPool ==
    /\ pc = "idle"
    /\ \E token \in AddressInputs(pool), newBalance \in NewBalances :
         \E r \in {updateTokenBalanceForPool(pool, token, newBalance)} :
            /\ pool' = r.pool
            /\ written' = [i \in DOMAIN written |->
                              IF ~r.raised /\ token # pool.address /\ i \in TokenAt(pool, token)
                              THEN [set |-> TRUE, val |-> newBalance]
                              ELSE written[i]]
            /\ pc' = "returned"
            /\ last' = [NoCall EXCEPT !.op = "updateTokenBalanceForPool",
                                      !.raised = r.raised, !.token = token,
                                      !.newBalance = newBalance]
            /\ UNCHANGED <<pool0, lim, codec>>

Quote(op, r, o) ==
    Returned([NoCall EXCEPT !.op = op, !.raised = r.raised, !.failed = o.failed,
                            !.val = o.val, !.ret = r.ret])

ExactTokenInForTokenOut ==
    /\ pc = "idle"
    /\ \E o \in MathOutcomes, amount \in Amounts :
         Quote("_exactTokenInForTokenOut",
               _exactTokenInForTokenOut(HeldPairData, amount, o), o)

TokenInForExactTokenOut ==
    /\ pc = "idle"
    /\ \E o \in MathOutcomes, amount \in Amounts :
         Quote("_tokenInForExactTokenOut",
               _tokenInForExactTokenOut(HeldPairData, amount, o), o)

SpotPriceAfterSwapExactTokenInForTokenOut ==
    /\ pc = "idle"
    /\ \E o \in MathOutcomes, amount \in Amounts :
         Quote("_spotPriceAfterSwapExactTokenInForTokenOut",
               _spotPriceAfterSwapExactTokenInForTokenOut(HeldPairData, amount, o), o)

SpotPriceAfterSwapTokenInForExactTokenOut ==
    /\ pc = "idle"
    /\ \E o \in MathOutcomes, amount \in Amounts :
         Quote("_spotPriceAfterSwapTokenInForExactTokenOut",
               _spotPriceAfterSwapTokenInForExactTokenOut(HeldPairData, amount, o), o)

DerivativeSpotPriceAfterSwapExactTokenInForTokenOut ==
    /\ pc = "idle"
    /\ \E o \in MathOutcomes, amount \in Amounts :
         Quote("_derivativeSpotPriceAfterSwapExactTokenInForTokenOut",
               _derivativeSpotPriceAfterSwapExactTokenInForTokenOut(HeldPairData, amount, o), o)

DerivativeSpotPriceAfterSwapTokenInForExactTokenOut ==
    /\ pc = "idle"
    /\ \E o \in MathOutcomes, amount \in Amounts :
         Quote("_derivativeSpotPriceAfterSwapTokenInForExactTokenOut",
               _derivativeSpotPriceAfterSwapTokenInForExactTokenOut(HeldPairData, amount, o), o)

\* the caller is done with the result
Return ==
    /\ pc = "returned"
    /\ pc' = "idle"
    /\ last' = NoCall
    /\ UNCHANGED <<pool, pool0, written, lim, codec>>

Next ==
    \/ ParsePoolPairData
    \/ GetNormalizedLiquidity
    \/ GetLimitAmountSwap
    \/ UpdateTokenBalanceForPool
    \/ ExactTokenInForTokenOut
    \/ TokenInForExactTokenOut
    \/ SpotPriceAfterSwapExactTokenInForTokenOut
    \/ SpotPriceAfterSwapTokenInForExactTokenOut
    \/ DerivativeSpotPriceAfterSwapExactTokenInForTokenOut
    \/ DerivativeSpotPriceAfterSwapTokenInForExactTokenOut
    \/ Return

Spec == Init /\ [][Next]_vars

\* getLimitAmountSwap as a function of its arguments
InitLimit ==
    /\ pool = BasePool
    /\ pool0 = pool
    /\ written = [i \in 1..Len(pool.tokens) |-> [set |-> FALSE, val |-> Zero]]
    /\ pc = "idle"
    /\ last = NoCall
    /\ codec = CodecIdle
    /\ \E pd \in LimitInputs, swapType \in SwapTypes :
         lim = [LimIdle EXCEPT !.pc = "in", !.pd = pd, !.swapType = swapType]

LimitCall ==
    /\ lim.pc = "in"
    /\ \E r \in {getLimitAmountSwap(lim.pd, lim.swapType)} :
         lim' = [lim EXCEPT !.pc = "out", !.raised = r.raised, !.failed = r.failed,
                            !.ret = r.ret]
    /\ UNCHANGED <<pool, pool0, written, pc, last, codec>>

NextLimit == LimitCall

SpecLimit == InitLimit /\ [][NextLimit]_vars

\* parseFixedCurveParam as a function of its argument, applied once and
\* then again to the string of its own result
InitCodec ==
    /\ pool = NoPool
    /\ pool0 = pool
    /\ written = <<>>
    /\ pc = "idle"
    /\ last = NoCall
    /\ lim = LimIdle
    /\ \E param \in ParamInputs : codec = [CodecIdle EXCEPT !.pc = "in", !.param = param]

Encode ==
    /\ codec.pc = "in"
    /\ codec' = [codec EXCEPT !.pc = "encoded", !.out = parseFixedCurveParam(codec.param)]
    /\ UNCHANGED <<pool, pool0, written, pc, last, lim>>

ReEncode ==
    /\ codec.pc = "encoded"
    /\ codec' = [codec EXCEPT !.pc = "reencoded",
                              !.out2 = parseFixedCurveParam(DecToString[codec.out])]
    /\ UNCHANGED <<pool, pool0, written, pc, last, lim>>

NextCodec == Encode \/ ReEncode

SpecCodec == InitCodec /\ [][NextCodec]_vars

\* ------------------------------------------------------------------------
\* Properties
\* ------------------------------------------------------------------------

\* whether a step inside getLimitAmountSwap(pd, swapType) fails: the
\* reserves cannot be converted, alpha cannot be read, or the price of the
\* side converted back is zero
FailsInside(pd, swapType) ==
    \/ ~(pd.hasOracleIn /\ pd.hasOracleOut)
    \/ ~pd.hasAlpha
    \/ IF swapType = SwapExactIn THEN pd.tokenInLatestFXPrice = ZERO
       ELSE pd.tokenOutLatestFXPrice = ZERO

\* C1: getLimitAmountSwap never raises, and returns exactly zero whenever a
\* step inside it fails.
C1_LimitNeverRaises ==
    lim.pc = "out" =>
        /\ ~lim.raised
        /\ FailsInside(lim.pd, lim.swapType) => lim.ret = ZERO

C1_Witness ==
    lim.pc = "out" /\ ~lim.pd.hasAlpha /\ lim.failed /\ ~lim.raised /\ lim.ret = ZERO

\* C2: getLimitAmountSwap never returns a negative value, for every PairData
\* and every swap type.
C2_LimitNonNegative == lim.pc = "out" => ~lim.ret.neg

QuoteOps ==
    {"_exactTokenInForTokenOut", "_tokenInForExactTokenOut",
     "_spotPriceAfterSwapExactTokenInForTokenOut",
     "_spotPriceAfterSwapTokenInForExactTokenOut",
     "_derivativeSpotPriceAfterSwapExactTokenInForTokenOut",
     "_derivativeSpotPriceAfterSwapTokenInForExactTokenOut"}

\* C3: each of the six quote and price methods never raises; it returns zero
\* when the math function fails and the math function's result otherwise.
C3_QuotesNeverRaise ==
    last.op \in QuoteOps =>
        /\ ~last.raised
        /\ last.ret = IF last.failed THEN ZERO ELSE last.val

C3_Witness ==
    /\ last.op = "_spotPriceAfterSwapTokenInForExactTokenOut"
    /\ last.failed /\ ~last.raised /\ last.ret = ZERO

IsMember(p, a) == a.form # "bad" /\ TokenAt(p, a) # {}

TokenOf(p, a) == p.tokens[CHOOSE i \in TokenAt(p, a) : TRUE]

CarriesOracle(t) == t.hasToken /\ t.hasLatestFXPrice /\ t.hasFxOracleDecimals

ParseMustRaise(p, tokenIn, tokenOut) ==
    \/ ~IsMember(p, tokenIn)
    \/ ~IsMember(p, tokenOut)
    \/ ~CarriesOracle(TokenOf(p, tokenIn))
    \/ ~CarriesOracle(TokenOf(p, tokenOut))

\* C4: parsePoolPairData raises, and returns no PairData, whenever tokenIn or
\* tokenOut is not a token of the pool and whenever either token lacks its
\* oracle price or oracle decimal count; it returns PairData only when both
\* are members carrying both fields.
C4_ParseRaises ==
    last.op = "parsePoolPairData" =>
        /\ ParseMustRaise(pool, last.tokenIn, last.tokenOut)
              => last.raised /\ last.pd = NoPairData
        /\ ~last.raised =>
              /\ IsMember(pool, last.tokenIn) /\ IsMember(pool, last.tokenOut)
              /\ CarriesOracle(TokenOf(pool, last.tokenIn))
              /\ CarriesOracle(TokenOf(pool, last.tokenOut))

C4_Witness ==
    /\ last.op = "parsePoolPairData" /\ last.raised
    /\ IsMember(pool, last.tokenIn) /\ IsMember(pool, last.tokenOut)
    /\ CarriesOracle(TokenOf(pool, last.tokenIn))
    /\ TokenOf(pool, last.tokenOut).hasLatestFXPrice
    /\ ~TokenOf(pool, last.tokenOut).hasFxOracleDecimals

\* C5: updateTokenBalanceForPool(pool.address, X) sets total shares to
\* exactly X; with an address that is neither the pool's nor a token's it
\* raises.
C5_UpdateShares ==
    last.op = "updateTokenBalanceForPool" =>
        /\ last.token = pool.address
              => ~last.raised /\ pool.totalShares = last.newBalance
        /\ (last.token.id # pool.address.id /\ TokenAt(pool, last.token) = {})
              => last.raised

C5_Witness ==
    /\ last.op = "updateTokenBalanceForPool" /\ last.token = pool.address
    /\ pool.totalShares = last.newBalance /\ pool.totalShares # pool0.totalShares

\* the pool with its total shares and balances put back to those of p0
WithSharesAndBalancesOf(p, p0) ==
    [p EXCEPT !.totalShares = p0.totalShares,
              !.tokens = [i \in 1..Len(p.tokens) |->
                             [p.tokens[i] EXCEPT !.balance = p0.tokens[i].balance]]]

ChangedBalances(p, q) == {i \in 1..Len(p.tokens) : p.tokens[i].balance # q.tokens[i].balance}

\* a step that changes the pool is a successful updateTokenBalanceForPool and
\* changes the total shares alone or one balance alone
FrameStep ==
    pool' # pool =>
        /\ last'.op = "updateTokenBalanceForPool" /\ ~last'.raised
        /\ WithSharesAndBalancesOf(pool', pool) = pool
        /\ \/ pool'.totalShares # pool.totalShares /\ ChangedBalances(pool', pool) = {}
           \/ pool'.totalShares = pool.totalShares
                 /\ Cardinality(ChangedBalances(pool', pool)) = 1

\* C6: only total shares and token balances ever differ from their values at
\* construction, only a successful updateTokenBalanceForPool changes them,
\* and it changes exactly one of them; every other call, and a failing
\* update, leaves the pool as it was.
C6_Frame ==
    /\ [](WithSharesAndBalancesOf(pool, pool0) = pool0)
    /\ [][FrameStep]_vars

C6_Witness ==
    /\ last.op = "updateTokenBalanceForPool" /\ ~last.raised
    /\ pool.totalShares = pool0.totalShares
    /\ Cardinality(ChangedBalances(pool, pool0)) = 1

P0015 == Str(<<0>>, <<0, 0, 1, 5>>)

\* the value (P + 1 << 64) / 10^18 * 10^36 >> 64 for P = 0.0015 * 10^18
R0015 ==
    <<1, 5, 0, 0, 0, 0, 0, 0, 0, 0, 0, 0, 0, 0, 0, 0,
      9, 5, 2, 7, 9, 6, 8, 6, 9, 1, 8, 0, 2, 6, 1, 2, 9, 6>>

\* 1500000000000000.953
Out0015 ==
    [neg |-> FALSE, dp |-> 3,
     mant |-> <<1, 5, 0, 0, 0, 0, 0, 0, 0, 0, 0, 0, 0, 0, 0, 0, 9, 5, 3>>]

\* C7 as stated: parseFixedCurveParam("0.0015") is exactly 0.002.
C7_Original ==
    (codec.pc = "encoded" /\ codec.param = P0015)
        => codec.out = [neg |-> FALSE, mant |-> <<2>>, dp |-> 3]

\* C7 amended: parseFixedCurveParam("0.0015") is the ceiling to 3 decimals of
\* R / 10^18 with R = 1500000000000000952796869180261296, which is
\* 1500000000000000.953: the round-trip value 0.001500000000000000953 on
\* the 10^18 scale, not 0.002.
C7_Amended ==
    (codec.pc = "encoded" /\ codec.param = P0015) =>
        /\ codec.out = Out0015
        /\ Param64[parseFixed[codec.param, 18].val.mag] = R0015

C7_Witness ==
    codec.pc = "encoded" /\ codec.param = P0015 /\ codec.out = Out0015

\* x * 10^18
Times1e18(x) == DecTimes[x, bnum(NatPow10(18))]

\* C8 as stated: re-encoding the output of parseFixedCurveParam returns that
\* same output.
C8_Idempotent == codec.pc = "reencoded" => codec.out2 = codec.out

\* C8 amended: parseFixedCurveParam is not idempotent; re-encoding its output
\* o returns a value r with o * 10^18 + 0.945 < r <= o * 10^18 + 1, which is
\* larger than o.
C8_Amended ==
    codec.pc = "reencoded" =>
        /\ DecLess[DecPlus[Times1e18(codec.out), [neg |-> FALSE, mant |-> <<9, 4, 5>>, dp |-> 3]],
                   codec.out2]
        /\ ~DecLess[DecPlus[Times1e18(codec.out), ONE], codec.out2]
        /\ DecLess[codec.out, codec.out2]

C8_Witness ==
    codec.pc = "reencoded" /\ codec.param = P0015 /\ codec.out = Out0015
        /\ codec.out2 # codec.out

\* the reserve subtracted and the conversion applied for a swap type:
\* tokenIn's for SwapExactIn, tokenOut's otherwise
SideIsIn(swapType) == swapType = SwapExactIn

SideReserve(pd, swapType) ==
    IF SideIsIn(swapType)
    THEN viewNumeraireAmount[DecOfBN(pd.balanceIn), pd.decimalsIn,
                             pd.tokenInLatestFXPrice, pd.tokenInfxOracleDecimals]
    ELSE viewNumeraireAmount[DecOfBN(pd.balanceOut), pd.decimalsOut,
                             pd.tokenOutLatestFXPrice, pd.tokenOutfxOracleDecimals]

\* (1 + a) * oGLiq * 0.5 minus the side's reserve, converted back and put on
\* the token's decimal scale
Headroom(pd, swapType, a) ==
    LimitOf[viewRawAmount[
                DecMinus[DecTimes[DecPlus[ONE, a],
                                  DecTimes[poolBalancesToNumeraire(pd)._oGLiq, HALF]],
                         SideReserve(pd, swapType)],
                bnum(NatOfInt[IF SideIsIn(swapType) THEN pd.decimalsIn ELSE pd.decimalsOut]),
                IF SideIsIn(swapType) THEN pd.tokenInLatestFXPrice
                ELSE pd.tokenOutLatestFXPrice,
                IF SideIsIn(swapType) THEN pd.tokenInfxOracleDecimals
                ELSE pd.tokenOutfxOracleDecimals],
            IF SideIsIn(swapType) THEN pd.decimalsIn ELSE pd.decimalsOut].val

\* C9 as stated: maxLimit = (1 + alpha) * oGLiq * 0.5 with alpha the pool's
\* decoded curve parameter.
C9_Original ==
    (lim.pc = "out" /\ ~FailsInside(lim.pd, lim.swapType))
        => lim.ret = Headroom(lim.pd, lim.swapType, lim.pd.alpha)

\* C9 amended: when no step fails, getLimitAmountSwap returns the inverse
\* oracle conversion of maxLimit minus a reserve, where
\* maxLimit = (1 + alpha / 10^18) * oGLiq * 0.5, alpha being the pool's
\* decoded curve parameter and the quotient kept to 18 decimals; the
\* reserve and the token are tokenIn's for SwapExactIn and tokenOut's for
\* every other swap type.
C9_Amended ==
    (lim.pc = "out" /\ ~FailsInside(lim.pd, lim.swapType))
        => lim.ret = Headroom(lim.pd, lim.swapType,
                              DecDiv[lim.pd.alpha, bnum(NatPow10(18))])

C9_Witness ==
    /\ lim.pc = "out" /\ ~FailsInside(lim.pd, lim.swapType)
    /\ lim.swapType = "Other" /\ lim.pd.balanceIn # lim.pd.balanceOut
    /\ lim.ret # ZERO /\ ~lim.ret.neg

\* the balance of the token at position i that a parse must report
ExpectedBalance(i) ==
    IF written[i].set THEN written[i].val
    ELSE parseFixed[pool0.tokens[i].balance, pool0.tokens[i].decimals].val

PositionOf(a) == CHOOSE i \in TokenAt(pool, a) : TRUE

\* C10: a successful parsePoolPairData reports, for each side, the newBalance
\* of that token's most recent successful update (its snapshot balance when
\* it was never updated), with that token's decimals.
C10_ParseReadsLatest ==
    (last.op = "parsePoolPairData" /\ ~last.raised) =>
        /\ last.pd.balanceIn = ExpectedBalance(PositionOf(last.tokenIn))
        /\ last.pd.balanceOut = ExpectedBalance(PositionOf(last.tokenOut))
        /\ last.pd.decimalsIn = pool0.tokens[PositionOf(last.tokenIn)].decimals
        /\ last.pd.decimalsOut = pool0.tokens[PositionOf(last.tokenOut)].decimals

C10_Witness ==
    /\ last.op = "parsePoolPairData" /\ ~last.raised
    /\ last.tokenIn.id # last.tokenOut.id
    /\ written[PositionOf(last.tokenOut)].set
    /\ ~written[PositionOf(last.tokenIn)].set
    /\ last.pd.balanceOut = written[PositionOf(last.tokenOut)].val
    /\ pool.totalShares # pool0.totalShares

====
